---------------------------- MODULE Spec2Model ----------------------------
(***************************************************************************)
(* The AI job scheduler of extension/out/AiScheduler.js: runAI pushes a    *)
(* job on a priority-sorted queue and calls processQueue, which waits out  *)
(* the cooldown since the last successful call, shifts the head of the     *)
(* queue and awaits the job's fn.                                          *)
(*                                                                         *)
(* JavaScript runs every handler to its next await without interruption,   *)
(* so one action is one such run: a runAI call (Submit), the continuation  *)
(* of processQueue after `await sleep(wait)` (Wake), its continuation      *)
(* after `await job.fn()` (Complete).  Tick lets wall-clock time pass.     *)
(*                                                                         *)
(* Time is counted in ticks of TICK ms.  The code reads lastCallTime only  *)
(* through diff = Date.now() - lastCallTime and compares diff with         *)
(* MIN_DELAY, so the model keeps diff itself (sinceLastCall), saturated at *)
(* MIN_DELAY; a timer keeps the ticks left until it is due.                *)
(*                                                                         *)
(* Spec, FairSpec and BurstSpec are the scheduler; CancelSpec adds callers *)
(* that ask for a cancellation, StreamSpec callers that never stop         *)
(* submitting, CooldownSpec the status bar (startCooldown, stopCooldown    *)
(* and their interval).  RetrySpec is safeAIRequest, the retry wrapper of  *)
(* the backend.  EditorSpec is the analysis side of the VS Code extension  *)
(* (debounced analysis, fixCode and the diagnostics they publish) and      *)
(* SuggestSpec its inline completion provider.                             *)
(***************************************************************************)
EXTENDS Integers, Sequences, FiniteSets

\* ------------------------------------------------------------- bounds
\* Number of runAI calls made in one run.
MaxJobs == 3
\* Clock resolution: ticks per MIN_DELAY.
TicksPerDelay == 2
\* Promises outstanding at a time in StreamSpec, whose callers never stop.
StreamJobs == 3
\* Activations asleep beyond which the callers of StreamSpec hold back.
MaxSleepers == 1
\* safeAIRequest: calls in progress at a time, largest `retries` passed,
\* clock resolution in ticks per backoff delay.
MaxRequests == 1
MaxRetriesArg == 5
TicksPerBackoff == 4
\* The extension: changes made to the documents in one run, clock resolution
\* in ticks per debounce delay, fixCode calls in progress at a time.
MaxEdits == 2
DebounceTicks == 2
MaxFixes == 1
\* provideInlineCompletionItems calls made in one run.
MaxSuggests == 4

\* ---------------------------------------------------------- constants
MIN_DELAY == 21000
\* "3 RPM model": the per-minute quota MIN_DELAY is sized for.
RPM == 3
\* `retries = 2` of safeAIRequest, the retry wrapper of the backend.
maxRetries == 2
MINUTE == 60 * 1000
\* `setTimeout(resolve, 1000)` of safeAIRequest.
BACKOFF_MS == 1000
\* `config.get<number>('debounceMs', 1500)` of scheduleAnalysis.
debounceMs == 1500
EDITOR_TICK == debounceMs \div DebounceTicks
TICK == MIN_DELAY \div TicksPerDelay
\* Ticks after which a dispatch has left every one-minute window.
WindowTicks == (MINUTE + TICK - 1) \div TICK

\* ------------------------------------------------------------- inputs
\* The priority a caller passes (1 is runAI's default).
Priorities == {1, 5}
\* The promises runAI returns, numbered in the order of the calls.
PromiseIds == 1..(IF MaxJobs > RPM THEN MaxJobs ELSE RPM + 1)
\* The documents open in the editor.
Docs == {"a", "b"}
\* How one invocation of a job's fn may settle.
Outcomes == {"fulfilled", "rejected"}
\* The requests the backend serves with safeAIRequest.
Requests == 1..MaxRequests

VARIABLES
    jobQueue,       \* sequence of jobs [fn, promise, priority]
    isRunning,      \* BOOLEAN
    sinceLastCall,  \* ticks since lastCallTime, saturated at TicksPerDelay
    sleeping,       \* activations of processQueue suspended in `await sleep(wait)`:
                    \*   [remaining: ticks until the timer is due,
                    \*    head: the promise at the head of jobQueue when the wait began]
    inFlight,       \* activations suspended in `await job.fn()`:
                    \*   [job, call: number of this invocation, via: "direct" or
                    \*    "wait", head: as in sleeping (the job itself when direct)]
    calls,          \* number of fn invocations made so far
    settled,        \* settled[p]: the resolve/reject calls made on promise p, in order:
                    \*   [kind, value: the call whose result or error it carries,
                    \*    outcome: how that call of fn settled]
    submitted,      \* history: [job, done] per runAI call, in order; done is the
                    \*   number of settlements made before the call
    invoked,        \* history: invoked[p] = the calls that invoked the fn of promise p
    recent,         \* history: ticks since each dispatch of the last minute
    cancelAsked,    \* history: the promises of the jobs that were queued and
                    \*   matched the predicate of a cancelQueued call
    requests,       \* the safeAIRequest calls of the backend, per request:
                    \*   [st: "idle", "awaiting" (in `await fn()`), "backoff" (in
                    \*    the 1000 ms wait), "returned" or "thrown",
                    \*    given: the `retries` argument of the outermost call,
                    \*    retries: the `retries` parameter of the current call,
                    \*    attempts: invocations of fn so far,
                    \*    backoffs: backoff waits begun so far,
                    \*    delay: ms passed to the last setTimeout,
                    \*    timer: ticks until that timeout is due,
                    \*    result: the attempt whose value or error came out]
    statusBarItem,  \* BOOLEAN: initScheduler has set the status bar item
    statusText,     \* statusBarItem.text as the scheduler last wrote it:
                    \*   [kind: "none", "cooldown" or "ready", seconds]
    cooldownInterval, \* the id of the interval held in cooldownInterval, 0 for null
    intervals,      \* the setInterval timers not cleared:
                    \*   [id, remaining: the `remaining` of its callback,
                    \*    ms: time since it last fired]
    document,       \* the text of each document: [version: the number of
                    \*   changes made to it, blank: `!getText().trim()`]
    isAnalysisEnabled, \* BOOLEAN
    analyzeTimer,   \* the id of the timeout held in analyzeTimer, 0 for null
    timeouts,       \* the setTimeout timers pending: [id, doc, remaining]
    isAnalyzing,    \* BOOLEAN
    cancelSource,   \* the id of the request cancelSource belongs to, 0 for null
    analyses,       \* the /analyze requests in flight:
                    \*   [id, doc, version: the text sent, cancelled]
    diag,           \* the diagnostics collection, per document:
                    \*   [kind: "none" or "set", issues: BOOLEAN (the list
                    \*    is not empty), version: the text they are about]
    fixes,          \* the fixCode calls in progress: [id, doc, at: "post"
                    \*   (awaiting /fix), "edit" (awaiting the edit) or
                    \*   "clear" (the edit is applied), version: the text
                    \*   the edit produced]
    fixed,          \* history: per document, the version the last fix that
                    \*   ran to its end produced, 0 for none
    sent,           \* history: per document, the version the last /analyze
                    \*   request carried, -1 for none
    burst,          \* history of the changes: [doc: the document of the last
                    \*   scheduleAnalysis call, since: ticks since that call,
                    \*   calls: analyzeDocument calls timers made since,
                    \*   missed: a later change did not reach scheduleAnalysis]
    lastRequest,    \* the id of the request lastRequest belongs to, 0 for none
    suggests,       \* the /suggest requests outstanding: [id, cancelled]
    answers         \* history: what each provideInlineCompletionItems call
                    \*   that ended gave: [id, cancelled, items, logged]

vars == <<jobQueue, isRunning, sinceLastCall, sleeping, inFlight, calls,
          settled, submitted, invoked, recent, cancelAsked, requests,
          statusBarItem, statusText, cooldownInterval, intervals,
          document, isAnalysisEnabled, analyzeTimer, timeouts, isAnalyzing,
          cancelSource, analyses, diag, fixes, fixed, sent, burst,
          lastRequest, suggests, answers>>

\* The analysis side of the extension and its inline completion provider.
editor == <<document, isAnalysisEnabled, analyzeTimer, timeouts, isAnalyzing,
            cancelSource, analyses, diag, fixes, fixed, sent, burst>>
provider == <<lastRequest, suggests, answers>>
client == <<editor, provider>>

\* The status bar side of the module.  It is written by startCooldown and
\* stopCooldown and read by nothing that schedules, so the specifications
\* that are about scheduling leave it out; CooldownSpec keeps it.
statusBar == <<statusBarItem, statusText, cooldownInterval, intervals>>

\* What the steps of the scheduler leave alone, recent apart.
rest == <<cancelAsked, requests, statusBar, client>>

\* The state of the scheduler module.
scheduler == <<jobQueue, isRunning, sinceLastCall, sleeping, inFlight, calls,
               settled, submitted, invoked, recent, cancelAsked, statusBar,
               client>>

Min(a, b) == IF a < b THEN a ELSE b

\* ------------------------------------------------------------ the queue
\* Array.prototype.sort with (a, b) => b.priority - a.priority: a stable
\* sort by descending priority.
\* Mutant: a new job is put before the queued jobs of its own priority.
RECURSIVE InsertBeforeEqual(_, _)
InsertBeforeEqual(x, s) ==
    IF s = <<>> THEN <<x>>
    ELSE IF Head(s).priority > x.priority
         THEN <<Head(s)>> \o InsertBeforeEqual(x, Tail(s))
         ELSE <<x>> \o s

RECURSIVE InsertSorted(_, _)
InsertSorted(x, s) ==
    IF s = <<>> THEN <<x>>
    ELSE IF Head(s).priority >= x.priority
         THEN <<Head(s)>> \o InsertSorted(x, Tail(s))
         ELSE <<x>> \o s

\* Mutant: the queue is left in the order of submission.
SortKeepsOrder(q) == q

RECURSIVE SortDesc(_)
SortDesc(q) ==
    IF q = <<>> THEN <<>>
    ELSE InsertSorted(q[Len(q)], SortDesc(SubSeq(q, 1, Len(q) - 1)))

\* Mutant: a job whose fn is already queued is not queued again.
PushUnlessQueued(q, job) ==
    IF \E k \in DOMAIN q : q[k].fn = job.fn THEN q ELSE Append(q, job)

\* jobQueue.push({ fn, resolve, reject, priority }).
Push(q, job) == Append(q, job)

\* Mutant: the head is read and left in the queue.
ShiftKeepsHead(q) == q

\* jobQueue.shift(): what is left of the queue.
Shift(q) == Tail(q)

\* `if (isRunning) return;`
Busy(run) == run

\* `if (diff < MIN_DELAY)` and `wait = MIN_DELAY - diff`, in ticks.
MustWait(since) == since * TICK < MIN_DELAY

\* Mutant: every cooldown wait lasts the whole MIN_DELAY.
WaitsFullDelay(since) == TicksPerDelay

WaitTicks(since) == TicksPerDelay - since

\* Mutant: lastCallTime is written after the try/catch, whatever the outcome.
SinceAfterAnyOutcome(outcome, since) == 0

\* `lastCallTime = Date.now()` is in the try block, after `await job.fn()`:
\* the diff a processQueue call made right after the settlement computes.
SinceAfter(outcome, since) == IF outcome = "fulfilled" THEN 0 ELSE since

\* Mutant: processQueue is not called again after a job has settled.
DrainsNever(q) == FALSE

\* `if (jobQueue.length > 0) processQueue();` after a job has settled.
Drains(q) == Len(q) > 0

\* Mutant: isRunning is reset in the try block only.
StaysRunningOnReject(outcome) == outcome = "rejected"

\* isRunning after the try/catch around `await job.fn()`.
RunningAfter(outcome) == FALSE

\* Mutant: the catch block resolves the promise with the error.
SettlementResolvesAll(outcome, call) ==
    [kind |-> "resolved", value |-> call, outcome |-> outcome]

\* job.resolve(result) in the try block, job.reject(err) in the catch block.
Settlement(outcome, call) ==
    [kind |-> IF outcome = "fulfilled" THEN "resolved" ELSE "rejected",
     value |-> call, outcome |-> outcome]

\* ------------------------------------------------------- processQueue
\* Lines 33-39: stopCooldown, shift the head, set isRunning, invoke job.fn.
\* q, run, sl, fl are the queue, isRunning and the sleeping and in-flight
\* activations as the caller leaves them.
Dispatch(q, run, sl, fl, via, head) ==
    IF q = <<>>
    THEN /\ jobQueue' = q
         /\ isRunning' = run
         /\ sleeping' = sl
         /\ inFlight' = fl
         /\ UNCHANGED <<calls, invoked>>
    ELSE LET job == Head(q)
             n == calls + 1
         IN /\ jobQueue' = Shift(q)
            /\ isRunning' = TRUE
            /\ sleeping' = sl
            /\ calls' = n
            /\ inFlight' = fl \cup {[job |-> job, call |-> n, via |-> via,
                                     head |-> head]}
            /\ invoked' = [invoked EXCEPT ![job.promise] = Append(@, n)]

\* Lines 21-39, up to the first await; since is the diff the call computes.
ProcessQueue(q, run, sl, fl, since) ==
    IF Busy(run) \/ Len(q) = 0
    THEN /\ jobQueue' = q
         /\ isRunning' = run
         /\ sleeping' = sl
         /\ inFlight' = fl
         /\ UNCHANGED <<calls, invoked>>
    ELSE IF MustWait(since)
    THEN /\ jobQueue' = q
         /\ isRunning' = run
         /\ sleeping' = Append(sl, [remaining |-> WaitTicks(since),
                                    head |-> Head(q).promise])
         /\ inFlight' = fl
         /\ UNCHANGED <<calls, invoked>>
    ELSE Dispatch(q, run, sl, fl, "direct", Head(q).promise)

\* ------------------------------------------------------------- actions
Init ==
    /\ jobQueue = <<>>
    /\ isRunning = FALSE
    /\ sinceLastCall = TicksPerDelay      \* lastCallTime = 0: diff >= MIN_DELAY
    /\ sleeping = <<>>
    /\ inFlight = {}
    /\ calls = 0
    /\ settled = [p \in PromiseIds |-> <<>>]
    /\ submitted = <<>>
    /\ invoked = [p \in PromiseIds |-> <<>>]
    /\ recent = <<>>
    /\ cancelAsked = {}
    /\ requests = [i \in Requests |->
                     [st |-> "idle", given |-> 0, retries |-> 0, attempts |-> 0,
                      backoffs |-> 0, delay |-> 0, timer |-> 0, result |-> 0]]
    /\ statusBarItem = FALSE
    /\ statusText = [kind |-> "none", seconds |-> 0]
    /\ cooldownInterval = 0
    /\ intervals = {}
    /\ document = [d \in Docs |-> [version |-> 0, blank |-> FALSE]]
    /\ isAnalysisEnabled = TRUE
    /\ analyzeTimer = 0
    /\ timeouts = {}
    /\ isAnalyzing = FALSE
    /\ cancelSource = 0
    /\ analyses = {}
    /\ diag = [d \in Docs |-> [kind |-> "none", issues |-> FALSE, version |-> 0]]
    /\ fixes = {}
    /\ fixed = [d \in Docs |-> 0]
    /\ sent = [d \in Docs |-> -1]
    /\ burst = [doc |-> "none", since |-> DebounceTicks, calls |-> 0,
                missed |-> FALSE]
    /\ lastRequest = 0
    /\ suggests = {}
    /\ answers = {}

NumSettled == Cardinality({p \in PromiseIds : settled[p] # <<>>})

\* runAI(fn, priority): push, sort, processQueue().
\* limit bounds the number of calls made in one run.
Submit(pr, limit) ==
    /\ Len(submitted) < limit
    /\ LET job == [fn |-> "fn", promise |-> Len(submitted) + 1, priority |-> pr]
       IN /\ submitted' = Append(submitted, [job |-> job, done |-> NumSettled])
          /\ ProcessQueue(SortDesc(Push(jobQueue, job)), isRunning,
                          sleeping, inFlight, sinceLastCall)
    /\ UNCHANGED <<sinceLastCall, settled>>

RemoveAt(s, i) == SubSeq(s, 1, i - 1) \o SubSeq(s, i + 1, Len(s))

\* The timer of sleep(wait) fires: processQueue resumes at stopCooldown().
Wake(i) ==
    /\ i \in DOMAIN sleeping
    /\ sleeping[i].remaining = 0
    /\ Dispatch(jobQueue, isRunning, RemoveAt(sleeping, i), inFlight,
                "wait", sleeping[i].head)
    /\ UNCHANGED <<sinceLastCall, settled, submitted>>

\* job.fn() settles with the given outcome: lines 40-48.
Complete(r, outcome) ==
    /\ r \in inFlight
    /\ LET since == SinceAfter(outcome, sinceLastCall)
           run == RunningAfter(outcome)
           fl == inFlight \ {r}
       IN /\ sinceLastCall' = since
          /\ settled' = [settled EXCEPT ![r.job.promise] =
                            Append(@, Settlement(outcome, r.call))]
          /\ IF Drains(jobQueue)
             THEN ProcessQueue(jobQueue, run, sleeping, fl, since)
             ELSE /\ isRunning' = run
                  /\ inFlight' = fl
                  /\ UNCHANGED <<jobQueue, sleeping, calls, invoked>>
    /\ UNCHANGED submitted

\* One tick of wall-clock time passes.
Tick ==
    /\ sinceLastCall' = Min(sinceLastCall + 1, TicksPerDelay)
    /\ sleeping' = [i \in DOMAIN sleeping |->
                      [sleeping[i] EXCEPT !.remaining = IF @ > 0 THEN @ - 1 ELSE 0]]
    /\ UNCHANGED <<jobQueue, isRunning, inFlight, calls, settled, submitted,
                   invoked>>

\* recent is kept by BurstSpec alone.
Next ==
    \/ \E pr \in Priorities : Submit(pr, MaxJobs) /\ UNCHANGED <<recent, rest>>
    \/ \E i \in DOMAIN sleeping : Wake(i) /\ UNCHANGED <<recent, rest>>
    \/ \E r \in inFlight, o \in Outcomes :
          Complete(r, o) /\ UNCHANGED <<recent, rest>>
    \/ Tick /\ UNCHANGED <<recent, rest>>

Spec == Init /\ [][Next]_vars

\* Every timer eventually fires, every fn eventually settles, time passes.
FairSpec ==
    /\ Spec
    /\ WF_vars(Tick /\ UNCHANGED <<recent, rest>>)
    /\ WF_vars(\E i \in DOMAIN sleeping : Wake(i) /\ UNCHANGED <<recent, rest>>)
    /\ WF_vars(\E r \in inFlight, o \in Outcomes :
                  Complete(r, o) /\ UNCHANGED <<recent, rest>>)

\* The same scheduler, given one job more than the per-minute quota, with the
\* dispatches of the last minute recorded.
Logged ==
    recent' = IF calls' > calls THEN Append(recent, 0) ELSE recent

Aged ==
    recent' = LET aged == [i \in DOMAIN recent |-> recent[i] + 1]
                  old == Cardinality({i \in DOMAIN aged : aged[i] >= WindowTicks})
              IN SubSeq(aged, old + 1, Len(aged))

BurstNext ==
    \/ \E pr \in Priorities : Submit(pr, RPM + 1) /\ Logged /\ UNCHANGED rest
    \/ \E i \in DOMAIN sleeping : Wake(i) /\ Logged /\ UNCHANGED rest
    \/ \E r \in inFlight, o \in Outcomes :
          Complete(r, o) /\ Logged /\ UNCHANGED rest
    \/ Tick /\ Aged /\ UNCHANGED rest

BurstSpec == Init /\ [][BurstNext]_vars

\* A caller asks the module to cancel the queued jobs of priority pr.  The
\* module exports initScheduler and runAI only: `cancelQueued` is undefined
\* on it, the call throws a TypeError in the caller and the scheduler is
\* left as it was.  QueueAfterCancel is the queue the call leaves behind.
QueueAfterCancel(q, pr) == q

Matching(q, pr) == {q[k].promise : k \in {i \in DOMAIN q : q[i].priority = pr}}

CancelQueued(pr) ==
    /\ Matching(jobQueue, pr) # {}
    /\ cancelAsked' = cancelAsked \cup Matching(jobQueue, pr)
    /\ jobQueue' = QueueAfterCancel(jobQueue, pr)
    /\ UNCHANGED <<isRunning, sinceLastCall, sleeping, inFlight, calls, settled,
                   submitted, invoked, recent, requests, statusBar, client>>

\* The scheduler with callers that also try to cancel.
CancelNext ==
    \/ \E pr \in Priorities : Submit(pr, MaxJobs) /\ UNCHANGED <<recent, rest>>
    \/ \E i \in DOMAIN sleeping : Wake(i) /\ UNCHANGED <<recent, rest>>
    \/ \E r \in inFlight, o \in Outcomes :
          Complete(r, o) /\ UNCHANGED <<recent, rest>>
    \/ Tick /\ UNCHANGED <<recent, rest>>
    \/ \E pr \in Priorities : CancelQueued(pr)

CancelSpec == Init /\ [][CancelNext]_vars

\* ------------------------------------------------------- the status bar
SECOND == 1000
Ready == [kind |-> "ready", seconds |-> 0]
Cooldown(n) == [kind |-> "cooldown", seconds |-> n]

\* Math.ceil(ms / 1000)
CeilSeconds(ms) == (ms + SECOND - 1) \div SECOND

\* The id setInterval returns: one no live interval has.
FreshId(live) ==
    CHOOSE n \in 1..(Cardinality(live) + 1) :
        /\ \A t \in live : t.id # n
        /\ \A m \in 1..(n - 1) : \E t \in live : t.id = m

\* startCooldown(ms).  It overwrites cooldownInterval: the interval held
\* there, if any, is not cleared and goes on firing.
StartCooldown(ms) ==
    IF ~statusBarItem
    THEN UNCHANGED <<statusText, cooldownInterval, intervals>>
    ELSE LET remaining == CeilSeconds(ms)
             id == FreshId(intervals)
         IN /\ statusText' = Cooldown(remaining)
            /\ intervals' = intervals \cup
                               {[id |-> id, remaining |-> remaining, ms |-> 0]}
            /\ cooldownInterval' = id

\* stopCooldown()
StopCooldown ==
    IF ~statusBarItem
    THEN UNCHANGED <<statusText, cooldownInterval, intervals>>
    ELSE /\ intervals' = {t \in intervals : t.id # cooldownInterval}
         /\ cooldownInterval' = 0
         /\ statusText' = Ready

\* What a step of processQueue does to the status bar: startCooldown(wait)
\* when an activation begins to sleep, stopCooldown() when one passes line
\* 33 (after its sleep, or at once when no wait is due).
Shown ==
    /\ IF Len(sleeping') > Len(sleeping)
       THEN StartCooldown(sleeping'[Len(sleeping')].remaining * TICK)
       ELSE IF Len(sleeping') < Len(sleeping) \/ inFlight' \ inFlight # {}
       THEN StopCooldown
       ELSE UNCHANGED <<statusText, cooldownInterval, intervals>>
    /\ UNCHANGED statusBarItem

\* An interval after one tick: it fired once for every second that ended.
\* One whose `remaining` has reached 0 calls stopCooldown() each time it
\* fires from then on; it stops only if it is the one in cooldownInterval.
AfterTick(t) ==
    LET fired == (t.ms + TICK) \div SECOND
    IN IF t.remaining - fired <= 0
       THEN [t EXCEPT !.remaining = 0, !.ms = 0]
       ELSE [t EXCEPT !.remaining = @ - fired, !.ms = (t.ms + TICK) % SECOND]

\* The intervals fire during a tick.  As soon as one calls stopCooldown()
\* the interval in cooldownInterval is cleared; the text at the end of the
\* tick is that of whichever live interval fired last.
Counted ==
    LET aged == {AfterTick(t) : t \in intervals}
        expired == {t \in aged : t.remaining = 0}
        live == IF expired = {} THEN aged
                ELSE {t \in aged : t.id # cooldownInterval}
        texts == {Cooldown(t.remaining) : t \in {u \in live : u.remaining > 0}}
                    \cup (IF expired = {} THEN {} ELSE {Ready})
    IN /\ intervals' = live
       /\ cooldownInterval' = IF expired = {} THEN cooldownInterval ELSE 0
       /\ IF texts = {} THEN statusText' = statusText
          ELSE statusText' \in texts
       /\ UNCHANGED statusBarItem

\* initScheduler(statusItem)
InitScheduler ==
    /\ ~statusBarItem
    /\ statusBarItem' = TRUE
    /\ UNCHANGED <<jobQueue, isRunning, sinceLastCall, sleeping, inFlight, calls,
                   settled, submitted, invoked, recent, cancelAsked, requests,
                   statusText, cooldownInterval, intervals, client>>

\* The scheduler together with its status bar.
CooldownNext ==
    \/ \E pr \in Priorities :
          Submit(pr, MaxJobs) /\ Shown /\ UNCHANGED <<recent, cancelAsked, requests, client>>
    \/ \E i \in DOMAIN sleeping :
          Wake(i) /\ Shown /\ UNCHANGED <<recent, cancelAsked, requests, client>>
    \/ \E r \in inFlight, o \in Outcomes :
          Complete(r, o) /\ Shown /\ UNCHANGED <<recent, cancelAsked, requests, client>>
    \/ Tick /\ Counted /\ UNCHANGED <<recent, cancelAsked, requests, client>>
    \/ InitScheduler

CooldownSpec == Init /\ [][CooldownNext]_vars

\* ------------------------------------------------------ safeAIRequest
\* The `retries` arguments a caller passes (2 is the default).
RetryArgs == 0..MaxRetriesArg

\* Mutant: the last retry is not made.
ExhaustedEarly(retries) == retries <= 1

\* `if (retries <= 0) throw err;`
Exhausted(retries) == retries <= 0

\* Mutant: the recursive call passes `retries` on as it is.
RetriesKept(retries) == retries

\* `safeAIRequest(fn, retries - 1)`
RetriesLeft(retries) == retries - 1

\* safeAIRequest(fn, n) is called for request i: `await fn()`.
Call(i, n) ==
    /\ requests[i].st = "idle"
    /\ requests' = [requests EXCEPT ![i] =
                       [@ EXCEPT !.st = "awaiting", !.given = n, !.retries = n,
                                 !.attempts = 1]]
    /\ UNCHANGED scheduler

\* fn() fulfils: `return await fn()`.
FnFulfils(i) ==
    /\ requests[i].st = "awaiting"
    /\ requests' = [requests EXCEPT ![i] =
                       [@ EXCEPT !.st = "returned", !.result = requests[i].attempts]]
    /\ UNCHANGED scheduler

\* fn() rejects: the catch block rethrows or starts the backoff wait.
FnRejects(i) ==
    /\ requests[i].st = "awaiting"
    /\ requests' = [requests EXCEPT ![i] =
                       IF Exhausted(@.retries)
                       THEN [@ EXCEPT !.st = "thrown", !.result = requests[i].attempts]
                       ELSE [@ EXCEPT !.st = "backoff", !.backoffs = @ + 1,
                                      !.delay = BACKOFF_MS,
                                      !.timer = TicksPerBackoff]]
    /\ UNCHANGED scheduler

\* The backoff timeout fires: `return safeAIRequest(fn, retries - 1)`, which
\* invokes fn again.
BackoffOver(i) ==
    /\ requests[i].st = "backoff"
    /\ requests[i].timer = 0
    /\ requests' = [requests EXCEPT ![i] =
                       [@ EXCEPT !.st = "awaiting", !.retries = RetriesLeft(@),
                                 !.attempts = @ + 1]]
    /\ UNCHANGED scheduler

\* One tick of the backend's clock passes.
BackoffTick ==
    /\ \E i \in Requests : requests[i].st = "backoff" /\ requests[i].timer > 0
    /\ requests' = [i \in Requests |->
                       IF requests[i].st = "backoff" /\ requests[i].timer > 0
                       THEN [requests[i] EXCEPT !.timer = @ - 1]
                       ELSE requests[i]]
    /\ UNCHANGED scheduler

RetryNext ==
    \/ \E i \in Requests, n \in RetryArgs : Call(i, n)
    \/ \E i \in Requests : FnFulfils(i)
    \/ \E i \in Requests : FnRejects(i)
    \/ \E i \in Requests : BackoffOver(i)
    \/ BackoffTick

\* Every fn settles, every timeout fires, time passes.
RetrySpec ==
    /\ Init /\ [][RetryNext]_vars
    /\ WF_vars(\E i \in Requests : FnFulfils(i) \/ FnRejects(i))
    /\ WF_vars(\E i \in Requests : BackoffOver(i))
    /\ WF_vars(BackoffTick)

\* ------------------------------------------------------- endless callers
\* A caller that got its settlement drops the promise: the records of
\* promise p are forgotten, the later invocations are renumbered, and the
\* number p is free for the promise of a later runAI call.
InFlightPromises == {r.job.promise : r \in inFlight}

Forget(p) ==
    /\ p \in 1..Len(submitted)
    /\ settled[p] # <<>>
    /\ p \notin InFlightPromises /\ ~(\E k \in DOMAIN jobQueue : jobQueue[k].promise = p)
    /\ LET gone == {invoked[p][k] : k \in DOMAIN invoked[p]}
           Renumbered(c) == c - Cardinality({g \in gone : g < c})
       IN /\ invoked' = [q \in PromiseIds |->
                           IF q = p THEN <<>>
                           ELSE [k \in DOMAIN invoked[q] |-> Renumbered(invoked[q][k])]]
          /\ settled' = [q \in PromiseIds |->
                           IF q = p THEN <<>>
                           ELSE [k \in DOMAIN settled[q] |->
                                   [settled[q][k] EXCEPT !.value = Renumbered(@)]]]
          /\ inFlight' = {[r EXCEPT !.call = Renumbered(@)] : r \in inFlight}
          /\ calls' = calls - Cardinality(gone)
    /\ UNCHANGED <<jobQueue, isRunning, sinceLastCall, sleeping, submitted>>

\* runAI(fn, priority) once more; the new promise takes the free number p.
Resubmit(p, pr) ==
    /\ p \in 1..Len(submitted)
    /\ settled[p] = <<>> /\ invoked[p] = <<>>
    /\ p \notin InFlightPromises /\ ~(\E k \in DOMAIN jobQueue : jobQueue[k].promise = p)
    /\ Len(sleeping) < MaxSleepers
    /\ LET job == [fn |-> "fn", promise |-> p, priority |-> pr]
       IN /\ submitted' = [submitted EXCEPT ![p] = [job |-> job, done |-> NumSettled]]
          /\ ProcessQueue(SortDesc(Push(jobQueue, job)), isRunning,
                          sleeping, inFlight, sinceLastCall)
    /\ UNCHANGED <<sinceLastCall, settled>>

\* The scheduler with callers that never stop submitting.
StreamNext ==
    \/ \E pr \in Priorities : Submit(pr, StreamJobs) /\ UNCHANGED <<recent, rest>>
    \/ \E i \in DOMAIN sleeping : Wake(i) /\ UNCHANGED <<recent, rest>>
    \/ \E r \in inFlight, o \in Outcomes :
          Complete(r, o) /\ UNCHANGED <<recent, rest>>
    \/ Tick /\ UNCHANGED <<recent, rest>>
    \/ \E p \in PromiseIds : Forget(p) /\ UNCHANGED <<recent, rest>>
    \/ \E p \in PromiseIds, pr \in Priorities :
          Resubmit(p, pr) /\ UNCHANGED <<recent, rest>>

\* Every timer eventually fires, every fn eventually settles, time passes;
\* nothing obliges a caller to submit.
StreamSpec ==
    /\ Init /\ [][StreamNext]_vars
    /\ WF_vars(Tick /\ UNCHANGED <<recent, rest>>)
    /\ WF_vars(\E i \in DOMAIN sleeping : Wake(i) /\ UNCHANGED <<recent, rest>>)
    /\ WF_vars(\E r \in inFlight, o \in Outcomes :
                  Complete(r, o) /\ UNCHANGED <<recent, rest>>)

\* ---------------------------------------------------------- the editor
\* The extension's analysis of the open documents: onDidChangeTextDocument,
\* scheduleAnalysis, analyzeDocument and fixCode.  The clock counts ticks of
\* debounceMs / DebounceTicks.
TotalEdits == document["a"].version + document["b"].version

\* Mutant: the pending timeout is left to fire.
ClearTimeoutNever(ts, handle) == ts

\* `if (analyzeTimer) clearTimeout(analyzeTimer);`
ClearTimeout(ts, handle) == {t \in ts : t.id # handle}

\* scheduleAnalysis(doc)
ScheduleAnalysis(d) ==
    LET kept == ClearTimeout(timeouts, analyzeTimer)
        id == FreshId(kept)
    IN /\ timeouts' = kept \cup {[id |-> id, doc |-> d,
                                  remaining |-> DebounceTicks]}
       /\ analyzeTimer' = id
       /\ burst' = [doc |-> d, since |-> 0, calls |-> 0, missed |-> FALSE]

\* The onDidChangeTextDocument listener, for a file within maxFileSize and
\* of an enabled language.
OnDidChange(d) ==
    IF ~isAnalysisEnabled
    THEN /\ burst' = [burst EXCEPT !.missed = TRUE]
         /\ UNCHANGED <<analyzeTimer, timeouts>>
    ELSE ScheduleAnalysis(d)

\* cancelSource.cancel(...): a request that is still pending is aborted and
\* its promise rejects with a Cancel.
Cancel(rs, source) ==
    {IF r.id = source THEN [r EXCEPT !.cancelled = TRUE] ELSE r : r \in rs}

\* Mutant: analyzeDocument starts whether or not an analysis is running.
NeverAnalyzing(flag) == FALSE

\* `if (isAnalyzing) return;`
Analyzing(flag) == flag

\* analyzeDocument(doc), up to its await.
AnalyzeDocument(d) ==
    IF Analyzing(isAnalyzing)
    THEN UNCHANGED <<isAnalyzing, cancelSource, analyses, diag, sent>>
    ELSE IF document[d].blank
    THEN /\ diag' = [diag EXCEPT ![d] = [kind |-> "set", issues |-> FALSE,
                                         version |-> document[d].version]]
         /\ UNCHANGED <<isAnalyzing, cancelSource, analyses, sent>>
    ELSE LET others == Cancel(analyses, cancelSource)
             id == FreshId(others)
         IN /\ isAnalyzing' = TRUE
            /\ cancelSource' = id
            /\ analyses' = others \cup
                              {[id |-> id, doc |-> d,
                                version |-> document[d].version,
                                cancelled |-> FALSE]}
            /\ sent' = [sent EXCEPT ![d] = document[d].version]
            /\ UNCHANGED diag

\* The user changes document d; the listener runs.
Change(d) ==
    /\ TotalEdits < MaxEdits
    /\ \E b \in BOOLEAN :
          document' = [document EXCEPT ![d] = [version |-> @.version + 1,
                                               blank |-> b]]
    /\ OnDidChange(d)
    /\ UNCHANGED <<isAnalysisEnabled, isAnalyzing, cancelSource, analyses,
                   diag, fixes, fixed, sent>>

\* The ai.toggleAnalysis command.
ToggleAnalysis ==
    /\ isAnalysisEnabled' = ~isAnalysisEnabled
    /\ UNCHANGED <<document, analyzeTimer, timeouts, isAnalyzing, cancelSource,
                   analyses, diag, fixes, fixed, sent, burst>>

\* One tick of the editor's clock passes.
EditorTick ==
    /\ timeouts' = {[t EXCEPT !.remaining = IF @ > 0 THEN @ - 1 ELSE 0] :
                      t \in timeouts}
    /\ burst' = [burst EXCEPT !.since = Min(@ + 1, DebounceTicks)]
    /\ UNCHANGED <<document, isAnalysisEnabled, analyzeTimer, isAnalyzing,
                   cancelSource, analyses, diag, fixes, fixed, sent>>

\* A debounce timeout is due: its callback calls analyzeDocument(doc).  The
\* handle stays in analyzeTimer.
TimerFires(t) ==
    /\ t \in timeouts
    /\ t.remaining = 0
    /\ timeouts' = timeouts \ {t}
    /\ burst' = [burst EXCEPT !.calls = @ + 1]
    /\ AnalyzeDocument(t.doc)
    /\ UNCHANGED <<document, isAnalysisEnabled, analyzeTimer, fixes, fixed>>

\* The ai.analyze command on the active editor's document.
ManualAnalyze(d) ==
    /\ AnalyzeDocument(d)
    /\ UNCHANGED <<document, isAnalysisEnabled, analyzeTimer, timeouts, fixes,
                   fixed, burst>>

\* How an /analyze request may end: with issues, with none, with an error
\* (the 30 s timeout included), or, once aborted, with a Cancel.
AnalyzeOutcomes(r) ==
    IF r.cancelled THEN {"cancelled"} ELSE {"issues", "clean", "failed"}

\* `finally { isAnalyzing = false; }`
AnalyzingAfter(outcome) == FALSE

\* The awaited /analyze request settles: diag.set on a response, nothing
\* on an error or a Cancel, then the finally block.
AnalyzeSettles(r) ==
    /\ r \in analyses
    /\ \E o \in AnalyzeOutcomes(r) :
          /\ diag' = IF o \in {"issues", "clean"}
                     THEN [diag EXCEPT ![r.doc] =
                              [kind |-> "set", issues |-> o = "issues",
                               version |-> r.version]]
                     ELSE diag
          /\ isAnalyzing' = AnalyzingAfter(o)
    /\ analyses' = analyses \ {r}
    /\ UNCHANGED <<document, isAnalysisEnabled, analyzeTimer, timeouts,
                   cancelSource, fixes, fixed, sent, burst>>

\* fixCode(doc, range), up to `await axios.post(.../fix)`.
Fix(d) ==
    /\ Cardinality(fixes) < MaxFixes
    /\ fixes' = fixes \cup {[id |-> FreshId(fixes), doc |-> d, at |-> "post",
                             version |-> 0]}
    /\ UNCHANGED <<document, isAnalysisEnabled, analyzeTimer, timeouts,
                   isAnalyzing, cancelSource, analyses, diag, fixed, sent, burst>>

\* The /fix request settles: with an output the fix goes on to the edit,
\* otherwise to the catch block.
FixResponds(f, ok) ==
    /\ f \in fixes
    /\ f.at = "post"
    /\ fixes' = IF ok THEN (fixes \ {f}) \cup {[f EXCEPT !.at = "edit"]}
                ELSE fixes \ {f}
    /\ UNCHANGED <<document, isAnalysisEnabled, analyzeTimer, timeouts,
                   isAnalyzing, cancelSource, analyses, diag, fixed, sent, burst>>

\* editor.edit replaces the block with the output; the listener runs.
FixEdits(f) ==
    /\ f \in fixes
    /\ f.at = "edit"
    /\ TotalEdits < MaxEdits
    /\ document' = [document EXCEPT ![f.doc] = [version |-> @.version + 1,
                                                blank |-> FALSE]]
    /\ fixes' = (fixes \ {f}) \cup
                   {[f EXCEPT !.at = "clear",
                              !.version = document[f.doc].version + 1]}
    /\ OnDidChange(f.doc)
    /\ UNCHANGED <<isAnalysisEnabled, isAnalyzing, cancelSource, analyses,
                   diag, fixed, sent>>

\* `diag.delete(doc.uri)` once the edit has been awaited.
FixClears(f) ==
    /\ f \in fixes
    /\ f.at = "clear"
    /\ diag' = [diag EXCEPT ![f.doc] = [kind |-> "none", issues |-> FALSE,
                                        version |-> 0]]
    /\ fixed' = [fixed EXCEPT ![f.doc] = f.version]
    /\ fixes' = fixes \ {f}
    /\ UNCHANGED <<document, isAnalysisEnabled, analyzeTimer, timeouts,
                   isAnalyzing, cancelSource, analyses, sent, burst>>

\* What the steps of the editor leave alone.
notEditor == <<jobQueue, isRunning, sinceLastCall, sleeping, inFlight, calls,
               settled, submitted, invoked, recent, cancelAsked, requests,
               statusBar, provider>>

\* The analysis of the documents as they change.
EditorNext ==
    \/ \E d \in Docs : Change(d) /\ UNCHANGED notEditor
    \/ ToggleAnalysis /\ UNCHANGED notEditor
    \/ EditorTick /\ UNCHANGED notEditor
    \/ \E t \in timeouts : TimerFires(t) /\ UNCHANGED notEditor
    \/ \E d \in Docs : ManualAnalyze(d) /\ UNCHANGED notEditor
    \/ \E r \in analyses : AnalyzeSettles(r) /\ UNCHANGED notEditor

EditorSpec == Init /\ [][EditorNext]_vars

\* The same with the ai.fix command.
FixNext ==
    \/ \E d \in Docs : Change(d) /\ UNCHANGED notEditor
    \/ ToggleAnalysis /\ UNCHANGED notEditor
    \/ EditorTick /\ UNCHANGED notEditor
    \/ \E t \in timeouts : TimerFires(t) /\ UNCHANGED notEditor
    \/ \E d \in Docs : ManualAnalyze(d) /\ UNCHANGED notEditor
    \/ \E r \in analyses : AnalyzeSettles(r) /\ UNCHANGED notEditor
    \/ \E d \in Docs : Fix(d) /\ UNCHANGED notEditor
    \/ \E f \in fixes, ok \in BOOLEAN : FixResponds(f, ok) /\ UNCHANGED notEditor
    \/ \E f \in fixes : FixEdits(f) /\ UNCHANGED notEditor
    \/ \E f \in fixes : FixClears(f) /\ UNCHANGED notEditor

FixSpec == Init /\ [][FixNext]_vars

\* ------------------------------------------- the inline completion provider
\* AiInlineSuggestionProvider.provideInlineCompletionItems.  Every call is
\* numbered; lastRequest holds the number of the call whose cancel source
\* it is.
SuggestCalls == Cardinality(suggests) + Cardinality(answers)

\* Mutant: the previous request is left alone.
CancelNothing(rs, source) == rs

\* `if (this.lastRequest) this.lastRequest.cancel(...)`: the request is
\* aborted if it is still pending, and its promise rejects with a Cancel.
CancelLast(rs, source) ==
    {IF r.id = source THEN [r EXCEPT !.cancelled = TRUE] ELSE r : r \in rs}

\* provideInlineCompletionItems(document, position, ...), up to its await.
Provide ==
    /\ SuggestCalls < MaxSuggests
    /\ LET id == SuggestCalls + 1
       IN /\ suggests' = CancelLast(suggests, lastRequest) \cup
                            {[id |-> id, cancelled |-> FALSE]}
          /\ lastRequest' = id
    /\ UNCHANGED answers

\* How a /suggest request may end: with a completion, with none, with an
\* error (the 7.5 s timeout included), or, once aborted, with a Cancel.
SuggestOutcomes(r) ==
    IF r.cancelled THEN {"cancelled"} ELSE {"completion", "empty", "failed"}

\* `if (!axios.isCancel(err)) console.error(...)`
Logs(outcome) == outcome = "failed"

\* The awaited /suggest request settles and the call returns.
SuggestSettles(r) ==
    /\ r \in suggests
    /\ \E o \in SuggestOutcomes(r) :
          answers' = answers \cup {[id |-> r.id, cancelled |-> r.cancelled,
                                    items |-> o = "completion",
                                    logged |-> Logs(o)]}
    /\ suggests' = suggests \ {r}
    /\ UNCHANGED lastRequest

\* What the steps of the provider leave alone.
notProvider == <<jobQueue, isRunning, sinceLastCall, sleeping, inFlight, calls,
                 settled, submitted, invoked, recent, cancelAsked, requests,
                 statusBar, editor>>

SuggestNext ==
    \/ Provide /\ UNCHANGED notProvider
    \/ \E r \in suggests : SuggestSettles(r) /\ UNCHANGED notProvider

SuggestSpec == Init /\ [][SuggestNext]_vars

\* ------------------------------------------------------------- claims
\* The activations that invoke a job's fn in this step.
Started == inFlight' \ inFlight

InQueue(p) == \E k \in DOMAIN jobQueue : jobQueue[k].promise = p

Resolved(p) == settled[p] # <<>> /\ settled[p][1].kind = "resolved"
Rejected(p) == settled[p] # <<>> /\ settled[p][1].kind = "rejected"

\* C1: at most one job's fn is in flight (invoked and not yet settled) at
\* any instant, for every interleaving of submissions, timer expiries and
\* completions.
C1_SingleFlight == Cardinality(inFlight) <= 1

\* C2: whenever a job's fn is invoked, at least MIN_DELAY has elapsed since
\* the most recent successful completion (with no success yet,
\* lastCallTime = 0 and the elapsed time is over MIN_DELAY).
C2_MinSpacing ==
    [][\A r \in Started : sinceLastCall' * TICK >= MIN_DELAY]_vars

\* C3: the fn of every submitted job is invoked at most once and its promise
\* settled at most once, resolved if that invocation fulfilled and rejected
\* if it rejected, with the value of its own invocation.
C3_SettledOnce ==
    \A p \in PromiseIds :
        /\ Len(invoked[p]) <= 1
        /\ Len(settled[p]) <= 1
        /\ settled[p] # <<>> =>
              /\ invoked[p] = <<settled[p][1].value>>
              /\ settled[p][1].kind = "resolved" <=> settled[p][1].outcome = "fulfilled"
              /\ settled[p][1].kind = "rejected" <=> settled[p][1].outcome = "rejected"

\* C3 witness: one promise has been resolved and another one rejected.
C3_Witness ==
    \E p, q \in PromiseIds : Resolved(p) /\ Rejected(q)

C5_OneWaiter == Len(sleeping) <= 1

\* C6: at most RPM (3) dispatches begin in any 60-second window.
C6_Quota == Len(recent) <= RPM

\* C7, one step: when a dispatched job's fn rejects, its promise is rejected with
\* that error, isRunning is false again unless the next job was dispatched
\* at once, and a non-empty queue gets an activation that will dispatch
\* from it; with timers firing and fns settling the queue then empties.
C7_RejectionStep ==
    \A r \in inFlight :
        LET p == r.job.promise IN
        (r \notin inFlight' /\ Len(settled'[p]) > Len(settled[p])
           /\ settled'[p][Len(settled'[p])].outcome = "rejected")
        => /\ settled'[p][Len(settled'[p])].kind = "rejected"
           /\ settled'[p][Len(settled'[p])].value = r.call
           /\ isRunning' => Started # {}
           /\ jobQueue # <<>> => (Started # {} \/ Len(sleeping') > Len(sleeping))

\* C7: every rejection step is as above (the promise rejected with the
\* error, isRunning cleared, the queue picked up), and after a rejection the
\* queue is eventually empty.
C7_RejectionDoesNotStall ==
    /\ [][C7_RejectionStep]_vars
    /\ \A p \in PromiseIds : Rejected(p) ~> (jobQueue = <<>>)

\* C7 witness: a job was rejected while another was queued, and that other
\* job has been invoked since (no job fulfilled, so no cooldown was due).
C7_Witness ==
    \E p, q \in PromiseIds :
        /\ Rejected(p)
        /\ q <= Len(submitted) /\ submitted[q].done = 0
        /\ invoked[q] # <<>> /\ invoked[q][1] > settled[p][1].value
        /\ \A x \in PromiseIds : ~Resolved(x)

\* C8 as claimed: a rejected invocation is retried, up to maxRetries times,
\* before the promise is rejected.
C8_Original ==
    \A p \in PromiseIds : Rejected(p) => Len(invoked[p]) = 1 + maxRetries

\* C8 as amended: the scheduler invokes a dispatched job's fn once and does
\* not retry; a promise is rejected as soon as that one invocation rejects.
C8_NoRetry ==
    /\ calls = Cardinality({p \in PromiseIds : invoked[p] # <<>>})
    /\ \A p \in PromiseIds :
          (settled[p] # <<>> /\ settled[p][1].outcome = "rejected")
          => (Rejected(p) /\ Len(invoked[p]) = 1)

\* C8 witness: a promise rejected after a single invocation of its fn.
C8_Witness ==
    \E p \in PromiseIds : Rejected(p) /\ Len(invoked[p]) = 1

\* The calls made back-to-back with the first: before anything settled.
BackToBack == {p \in 1..Len(submitted) : submitted[p].done = 0}
Priority(p) == submitted[p].job.priority
InvokedBefore(p, q) ==
    /\ invoked[p] # <<>>
    /\ invoked[q] # <<>> => invoked[p][1] < invoked[q][1]

\* A(1), B(5), C(1) submitted in this order to the fresh scheduler.
ScenarioABC ==
    /\ Len(submitted) >= 3
    /\ {1, 2, 3} \subseteq BackToBack
    /\ Priority(1) = 1 /\ Priority(2) = 5 /\ Priority(3) = 1

\* C9 as claimed: of two jobs submitted back-to-back, the one of higher
\* priority is invoked first; A(1), B(5), C(1) are invoked B, A, C.
C9_Original ==
    /\ \A p, q \in BackToBack :
          (Priority(p) > Priority(q) /\ invoked[q] # <<>>) => InvokedBefore(p, q)
    /\ (ScenarioABC /\ \A p \in {1, 2, 3} : invoked[p] # <<>>)
          => (InvokedBefore(2, 1) /\ InvokedBefore(1, 3))

\* C9 as amended, one step: every dispatch invokes a job of the highest priority in
\* the queue at that moment; a job submitted to an idle scheduler that owes
\* no cooldown is invoked inside its own runAI call, whatever its priority,
\* so A(1), B(5), C(1) are invoked A, B, C.
C9_DispatchStep ==
    /\ \A r \in Started : \A k \in DOMAIN jobQueue' :
          r.job.priority >= jobQueue'[k].priority
    /\ (Len(submitted') > Len(submitted) /\ jobQueue = <<>> /\ ~isRunning
          /\ ~MustWait(sinceLastCall))
       => \E r \in Started : r.job.promise = Len(submitted')

\* C9 as amended: every dispatch step is as above, and A(1), B(5), C(1)
\* are invoked in the order A, B, C.
C9_HighestQueuedFirst ==
    /\ [][C9_DispatchStep]_vars
    /\ [](ScenarioABC =>
            /\ invoked[1] # <<>>
            /\ invoked[2] # <<>> => InvokedBefore(1, 2)
            /\ invoked[3] # <<>> => InvokedBefore(2, 3))

\* C9 witness: A(1), B(5), C(1) were submitted and have all been invoked.
C9_Witness ==
    ScenarioABC /\ \A p \in {1, 2, 3} : invoked[p] # <<>>

\* C10 as claimed: the job dispatched after a cooldown wait is the one at
\* the head of the queue when the wait began; no other job is invoked
\* while that one is still queued.
C10_Original ==
    [][\A r \in Started :
          (r.via = "wait" /\ InQueue(r.head)) => r.job.promise = r.head]_vars

\* C10 as amended: the job dispatched after a cooldown wait is the
\* highest-priority, earliest-submitted job in the queue when the wait
\* ends (it is shifted after the wait).
C10_HeadAtWake ==
    [][\A r \in Started : r.via = "wait" =>
          \A k \in DOMAIN jobQueue' :
              \/ r.job.priority > jobQueue'[k].priority
              \/ /\ r.job.priority = jobQueue'[k].priority
                 /\ r.job.promise < jobQueue'[k].promise]_vars

\* C10 witness: a job of higher priority, submitted during the wait, was
\* invoked when the wait ended, ahead of the job that headed the queue
\* when the wait began.
C10_Witness ==
    \E r \in inFlight : \E k \in DOMAIN jobQueue :
        /\ r.via = "wait"
        /\ jobQueue[k].promise = r.head
        /\ r.job.priority > jobQueue[k].priority

\* C11: after cancelQueued(predicate), a job that was queued and matched is
\* no longer queued, its promise is rejected as cancelled before dispatch,
\* and its fn is never invoked.
C11_CancelRemoves ==
    \A p \in cancelAsked :
        /\ ~InQueue(p)
        /\ invoked[p] = <<>>
        /\ settled[p] # <<>> /\ settled[p][1].outcome = "cancelled"

\* C12: jobs of equal priority are invoked in the order in which they were
\* submitted, whatever was submitted or dispatched in between.
C12_EqualPriorityFifo ==
    \A p, q \in 1..Len(submitted) :
        (p < q /\ Priority(p) = Priority(q) /\ invoked[q] # <<>>)
        => InvokedBefore(p, q)

\* C12 witness: two jobs of one priority waited in the queue together
\* (nothing settled between their submissions, the first was not invoked
\* inside its runAI call) behind a job of another priority, and both have
\* been invoked.
C12_Witness ==
    \E p, q, x \in 1..Len(submitted) :
        /\ x < p /\ p < q
        /\ Priority(p) = Priority(q) /\ Priority(x) # Priority(p)
        /\ submitted[p].done = submitted[q].done
        /\ invoked[p] # <<>> /\ invoked[q] # <<>>
        /\ invoked[p][1] > 1

\* C13: a queued job is eventually dispatched, also when jobs of higher
\* priority keep being submitted while it waits.
C13_NoStarvation ==
    \A p \in PromiseIds : InQueue(p) ~> ~InQueue(p)

\* The completion of this step, if it is one: the activation that left
\* inFlight and how its fn settled.
Completed == inFlight \ inFlight'
OutcomeOf(r) == settled'[r.job.promise][Len(settled'[r.job.promise])].outcome

\* C14, one step: the time since lastCallTime is reset by a fulfilled fn
\* and by nothing else (otherwise it only grows with the clock); a rejected
\* fn, a runAI call and the beginning or end of a cooldown wait leave it as
\* it is, so after a rejection the next job is invoked at once when no
\* cooldown was due, and waits what was left of it otherwise.
C14_Step ==
    /\ sinceLastCall' < sinceLastCall =>
          \E r \in Completed : OutcomeOf(r) = "fulfilled" /\ sinceLastCall' = 0
    /\ sinceLastCall' > sinceLastCall =>
          /\ sinceLastCall' = sinceLastCall + 1
          /\ Completed = {} /\ Started = {}
          /\ submitted' = submitted /\ Len(sleeping') = Len(sleeping)
    /\ \A r \in Completed : OutcomeOf(r) = "rejected" =>
          /\ sinceLastCall' = sinceLastCall
          /\ (jobQueue # <<>> /\ ~MustWait(sinceLastCall)) => Started # {}
          /\ (jobQueue # <<>> /\ MustWait(sinceLastCall)) =>
                /\ Len(sleeping') = Len(sleeping) + 1
                /\ sleeping'[Len(sleeping')].remaining = WaitTicks(sinceLastCall)
    /\ Len(submitted') > Len(submitted) => sinceLastCall' = sinceLastCall
    /\ (Completed = {} /\ Len(sleeping') < Len(sleeping)) =>
          sinceLastCall' = sinceLastCall

\* C14: every step is as above.
C14_WrittenOnFulfilOnly == [][C14_Step]_vars

\* C14 witness: after a success and the cooldown that followed it, a job
\* was rejected and the next job was invoked in the same step, without a
\* wait.
C14_Witness ==
    \E r \in inFlight : \E p, x \in PromiseIds :
        /\ r.via = "direct"
        /\ Rejected(p) /\ settled[p][1].value = r.call - 1
        /\ Resolved(x)
        /\ r.job.promise > p

\* C15: when fn fails on every attempt, safeAIRequest(fn, retries) invokes
\* fn retries + 1 times, waits one backoff of 1000 ms before each retry,
\* and throws the error of the last attempt; it never makes more attempts
\* than that, and every call comes to an end.
C15_Invariant ==
    \A i \in Requests :
        LET r == requests[i] IN
        /\ r.attempts <= r.given + 1
        /\ r.st = "backoff" => (r.delay = BACKOFF_MS /\ r.backoffs = r.attempts)
        /\ r.st = "awaiting" => r.backoffs = r.attempts - 1
        /\ r.st = "thrown" =>
              /\ r.attempts = r.given + 1
              /\ r.backoffs = r.given
              /\ r.result = r.attempts

\* C15: the invariant above, a retry is made only when the timeout of its
\* backoff is due, and a call that was made returns or throws.
C15_AlwaysFailing ==
    /\ []C15_Invariant
    /\ [][\A i \in Requests :
            requests'[i].attempts > requests[i].attempts =>
               \/ requests[i].st = "idle"
               \/ requests[i].st = "backoff" /\ requests[i].timer = 0]_vars
    /\ \A i \in Requests :
          (requests[i].st # "idle") ~> (requests[i].st \in {"returned", "thrown"})

\* C15 witness: a call with the default `retries` has thrown, after three
\* attempts.
C15_Witness ==
    \E i \in Requests :
        /\ requests[i].st = "thrown"
        /\ requests[i].given = maxRetries
        /\ requests[i].attempts = 1 + maxRetries

\* C16, one step: a call that has returned invokes fn no more.
C16_Step ==
    \A i \in Requests :
        requests[i].st = "returned" => requests'[i] = requests[i]

\* C16: when fn fails k times and then fulfils, k <= retries, the call
\* returns the value of attempt k + 1 after k backoff waits, and fn is not
\* invoked again.
C16_SucceedsAfterK ==
    /\ [](\A i \in Requests :
            requests[i].st = "returned" =>
               /\ requests[i].result = requests[i].attempts
               /\ requests[i].backoffs = requests[i].attempts - 1
               /\ requests[i].backoffs <= requests[i].given)
    /\ [][C16_Step]_vars

\* C16 witness: a call has returned on its last permitted attempt, after
\* failures and backoffs.
C16_Witness ==
    \E i \in Requests :
        /\ requests[i].st = "returned"
        /\ requests[i].given > 0
        /\ requests[i].backoffs = requests[i].given

\* C17: isRunning is true exactly while a job's fn is in flight: never
\* false while an invoked fn is still pending, never true without one.
C17_RunningWhileInFlight == isRunning <=> (inFlight # {})

\* C18: jobQueue is sorted by descending priority, and entries of equal
\* priority are in the order of their submission.
C18_QueueSorted ==
    \A i, j \in DOMAIN jobQueue :
        i < j => \/ jobQueue[i].priority > jobQueue[j].priority
                 \/ /\ jobQueue[i].priority = jobQueue[j].priority
                    /\ jobQueue[i].promise < jobQueue[j].promise

\* C18 witness: the queue holds a job ahead of one that was submitted
\* before it.
C18_Witness ==
    \E i, j \in DOMAIN jobQueue :
        i < j /\ jobQueue[i].promise > jobQueue[j].promise

\* The intervals that still count down and write the remaining seconds.
Counting == {t \in intervals : t.remaining > 0}

\* C19: while the scheduler waits out a cooldown, one interval at most
\* rewrites the remaining seconds (each live interval writes once per
\* second), and the seconds shown never go up from one write to the next.
C19_CountdownSteady ==
    /\ [](Cardinality(Counting) <= 1)
    /\ [][(statusText.kind = "cooldown" /\ statusText'.kind = "cooldown")
            => statusText'.seconds <= statusText.seconds]_vars

\* C20, one step: a processQueue call that finds no success on record or
\* MIN_DELAY elapsed since the last one invokes the job without a wait;
\* otherwise it sleeps MIN_DELAY minus the time elapsed, which is more than
\* nothing and at most MIN_DELAY.
C20_Step ==
    /\ \A r \in Started : r.via = "direct" => sinceLastCall' * TICK >= MIN_DELAY
    /\ Len(sleeping') > Len(sleeping) =>
          LET s == sleeping'[Len(sleeping')]
          IN /\ sinceLastCall' * TICK < MIN_DELAY
             /\ s.remaining * TICK = MIN_DELAY - sinceLastCall' * TICK
             /\ s.remaining * TICK > 0 /\ s.remaining * TICK <= MIN_DELAY
             /\ Started = {}
    /\ (Len(submitted') > Len(submitted) /\ ~isRunning) =>
          \/ Len(sleeping') > Len(sleeping)
          \/ \E r \in Started : r.via = "direct"

\* C20: every step is as above.
C20_WaitIsRemainder == [][C20_Step]_vars

\* C20 witness: an activation has just begun to sleep a part of MIN_DELAY,
\* the rest having elapsed before: its countdown has not fired yet and
\* shows the seconds of that part.
C20_Witness ==
    \E i \in DOMAIN sleeping : \E t \in intervals :
        /\ sleeping[i].remaining > 0 /\ sleeping[i].remaining < TicksPerDelay
        /\ t.id = cooldownInterval /\ t.ms = 0
        /\ t.remaining = CeilSeconds(sleeping[i].remaining * TICK)
        /\ sinceLastCall * TICK = MIN_DELAY - sleeping[i].remaining * TICK

\* The entries a submission has: in the queue, in flight, or settled.
Entries(p) ==
    Cardinality({k \in DOMAIN jobQueue : jobQueue[k].promise = p})
    + Cardinality({r \in inFlight : r.job.promise = p})
    + Len(settled[p])

\* C21: two submissions of the same fn are two entries: each is queued, in
\* flight or settled on its own, the fn is invoked once for each, by two
\* different calls, and each promise carries the outcome of its own call.
C21_NoDeduplication ==
    \A p, q \in PromiseIds :
        (p < q /\ q <= Len(submitted)
               /\ submitted[p].job.fn = submitted[q].job.fn) =>
            /\ Entries(p) = 1 /\ Entries(q) = 1
            /\ Len(invoked[p]) <= 1 /\ Len(invoked[q]) <= 1
            /\ (invoked[p] # <<>> /\ invoked[q] # <<>>) =>
                  invoked[p][1] # invoked[q][1]
            /\ \A x \in {p, q} :
                  settled[x] # <<>> =>
                      /\ invoked[x] = <<settled[x][1].value>>
                      /\ \E r \in {settled[x][1]} :
                            r = Settlement(r.outcome, invoked[x][1])

\* C21 witness: the same fn was submitted twice with one priority, the
\* second time while the first entry was still queued or pending; the
\* first promise was rejected and the second one resolved.
C21_Witness ==
    \E p, q \in PromiseIds :
        /\ p < q /\ q <= Len(submitted)
        /\ submitted[p].job = [submitted[q].job EXCEPT !.promise = p]
        /\ submitted[q].done = 0
        /\ Rejected(p) /\ Resolved(q)

\* Nothing is queued, waiting or in flight.
Drained == jobQueue = <<>> /\ sleeping = <<>> /\ inFlight = {}

\* C23: the intervals startCooldown creates are cleared by stopCooldown: no
\* two of them are live at once, and none is left when the queue has
\* drained.
C23_IntervalsCleared ==
    /\ Cardinality(intervals) <= 1
    /\ Drained => intervals = {}

\* C22: the diagnostics a document shows are never those of a text older
\* than its last fix: once fixCode has replaced the code and cleared the
\* diagnostics, no response to an /analyze request sent before the
\* replacement puts issues back.
C22_NoStaleDiagnostics ==
    \A d \in Docs :
        (fixed[d] > 0 /\ diag[d].kind = "set" /\ diag[d].issues) =>
            diag[d].version >= fixed[d]

\* No timer is pending and no request or fix is in progress.
Quiet == timeouts = {} /\ analyses = {} /\ fixes = {}

\* C24: once the extension has come to rest after the last change (made
\* with auto-analysis enabled, the text not blank), the last /analyze
\* request sent for that document carried its final text.
C24_FinalTextAnalyzed ==
    (Quiet /\ burst.doc \in Docs /\ ~burst.missed) =>
        \/ document[burst.doc].blank
        \/ sent[burst.doc] = document[burst.doc].version

\* C25: at most one /analyze request is in flight, and isAnalyzing is true
\* exactly while one is: false after a response, an error, a Cancel and the
\* early return on a blank text.
C25_OneAnalysis ==
    /\ Cardinality(analyses) <= 1
    /\ isAnalyzing <=> analyses # {}

\* C25 witness: a request for the text of a document has ended without a
\* response (nothing was published for it), a blank document has had its
\* diagnostics set by the early return, and isAnalyzing is false.
C25_Witness ==
    \E d, e \in Docs :
        /\ ~isAnalyzing /\ analyses = {}
        /\ sent[d] = document[d].version /\ diag[d].kind = "none"
        /\ document[e].blank /\ diag[e].kind = "set"
        /\ diag[e].version = document[e].version

\* The timeouts whose callback runs in this step.
Fired == IF burst'.calls = burst.calls + 1 THEN timeouts \ timeouts' ELSE {}

\* C26: at most one debounce timeout is pending; after a scheduleAnalysis
\* call either its timeout is pending and no timer has called
\* analyzeDocument since, or it has fired and made the one call; that call
\* is made debounceMs or more after the last scheduleAnalysis call and for
\* the document of that call.
C26_DebouncedOnce ==
    /\ [](/\ Cardinality(timeouts) <= 1
          /\ burst.doc \in Docs =>
                \/ timeouts # {} /\ burst.calls = 0
                \/ timeouts = {} /\ burst.calls = 1)
    /\ [][\A t \in Fired :
            /\ burst.calls = 0
            /\ burst.since * EDITOR_TICK >= debounceMs
            /\ t.doc = burst.doc]_vars

\* C26 witness: both documents were changed, "a" not after "b", and the
\* one call the timers made since was for "b": the text of "a", not blank,
\* was never sent nor given diagnostics.
C26_Witness ==
    /\ document["a"].version = 1 /\ document["b"].version = 1
    /\ burst.doc = "b" /\ burst.calls = 1 /\ timeouts = {}
    /\ ~document["a"].blank /\ sent["a"] = -1 /\ diag["a"].kind = "none"
    /\ sent["b"] = 1

\* C27: a /suggest request that is outstanding and not cancelled is the one
\* lastRequest belongs to, so there is one at most: the call that sent it
\* cancelled the one before first.  A call whose request was cancelled
\* returns no items and logs no error.
C27_OneSuggestion ==
    /\ \A r \in suggests : ~r.cancelled => r.id = lastRequest
    /\ Cardinality({r \in suggests : ~r.cancelled}) <= 1
    /\ \A a \in answers : a.cancelled => ~a.items /\ ~a.logged

\* C27 witness: a call whose request was cancelled by the next call has
\* returned, and the request of a later call is outstanding.
C27_Witness ==
    /\ \E a \in answers : a.cancelled
    /\ \E r \in suggests : ~r.cancelled

=============================================================================
